---- MODULE Spec2Model ----
(***************************************************************************)
(* Model of the Speechmatics transcription MCP server: the bounded batch   *)
(* engine of transcriber.py (transcribe, transcribe_batch) and the four    *)
(* tool handlers of server.py.  One behaviour is one call: either a tool   *)
(* call handled by server.py or a direct call of transcribe_batch.         *)
(*                                                                         *)
(* asyncio runs the code between two awaits as one step, so every action   *)
(* below is the code between two suspension points.  Durations are whole   *)
(* seconds.  Python's None is the string NULL.                             *)
(*                                                                         *)
(* PureSpec applies the functions that convert data on their own: the      *)
(* except clauses of transcribe, format_duration and the duration parser,  *)
(* write_transcript_file followed by get_transcript.  There a text is a    *)
(* sequence of characters and a float duration a number of ticks.          *)
(***************************************************************************)
EXTENDS Integers, Sequences, FiniteSets, TLC

\* ------------------------------------------------------------------ bounds
MaxFiles == 2

\* --------------------------------------------------------------- constants
NULL == "None"
DEFAULT_MAX_CONCURRENT == 10

\* the first paths of a directory, in sorted order
PathOf(i) == <<"a.mp3", "b.mp3", "c.mp3", "d.mp3", "e.mp3">>[i]
\* what ffprobe reports for the file when it succeeds
DurationOf(i) == <<125, 45, 3725, 7, 61>>[i]

MaxConcurrentInputs == {-1, 0, 1, 2, 51}
HttpCodes == {429, 400}
ProbeOutcomes == {"ok", "failed"}

NoResult == [status |-> "none"]
NoResponse == [status |-> "none"]

VARIABLES
    tool,            \* the operation called
    hstate,          \* the handler: "idle", "running", "returned", "raised"
    response,        \* the handler's response (the JSON object of its TextContent)
    files,           \* files_with_duration / transcribe_batch's files
    with_timestamps, \* the with_timestamps argument
    has_callback,    \* whether transcribe_batch got a progress_callback
    max_concurrent,  \* transcribe_batch's max_concurrent
    batch,           \* transcribe_batch: "idle", "running", "returned", "raised"
    semaphore,       \* the value of asyncio.Semaphore(max_concurrent)
    completed,       \* the nonlocal counter of transcribe_batch
    pc,              \* per item: position of its transcribe_with_limit task
    result,          \* per item: the TranscriptionResult its transcribe built
    fault,           \* per item: what the collaborators did to it
    results,         \* the list asyncio.gather returned
    disk,            \* the transcript paths written
    usage,           \* get_usage: its position and the dict it returns
    progress,        \* the calls of the progress callback, in order
    calls,           \* per item: what transcribe did with its AsyncClient, in order
    target,          \* what the path named by the tool call is on disk
    applied          \* a function of the program applied on its own: its
                     \* argument and its value

vars == <<tool, hstate, response, files, with_timestamps, has_callback,
          max_concurrent, batch, semaphore, completed, pc, result, fault,
          results, disk, usage, progress, calls, target, applied>>

\* the items that have a task
Items == DOMAIN pc

\* ------------------------------------------------------------------ utils.py

Pad2(n) == IF n < 10 THEN "0" \o ToString(n) ELSE ToString(n)

\* (mutant) a format that does not pad the seconds
format_duration_unpadded(seconds) ==
    LET hours   == seconds \div 3600
        minutes == (seconds % 3600) \div 60
        secs    == seconds % 60
    IN  IF hours > 0
        THEN ToString(hours) \o ":" \o Pad2(minutes) \o ":" \o ToString(secs)
        ELSE ToString(minutes) \o ":" \o ToString(secs)

format_duration(seconds) ==
    LET hours   == seconds \div 3600
        minutes == (seconds % 3600) \div 60
        secs    == seconds % 60
    IN  IF hours > 0
        THEN ToString(hours) \o ":" \o Pad2(minutes) \o ":" \o Pad2(secs)
        ELSE ToString(minutes) \o ":" \o Pad2(secs)

\* Text that is parsed again is a sequence of characters.
DigitChars == <<"0", "1", "2", "3", "4", "5", "6", "7", "8", "9">>

\* str(n) of a natural number
RECURSIVE Decimal(_)
Decimal(n) ==
    IF n < 10 THEN <<DigitChars[n + 1]>>
    ELSE Decimal(n \div 10) \o <<DigitChars[(n % 10) + 1]>>

\* f"{n:02d}"
Pad2Chars(n) == IF n < 10 THEN <<"0">> \o Decimal(n) ELSE Decimal(n)

\* format_duration of the float ticks / unit, as characters: the floor
\* divisions and the remainders of lines 58-60 on the scaled number
format_duration_chars(ticks, unit) ==
    LET hours   == ticks \div (3600 * unit)
        minutes == (ticks % (3600 * unit)) \div (60 * unit)
        secs    == (ticks % (60 * unit)) \div unit
    IN  IF hours > 0
        THEN Decimal(hours) \o <<":">> \o Pad2Chars(minutes) \o <<":">>
             \o Pad2Chars(secs)
        ELSE Decimal(minutes) \o <<":">> \o Pad2Chars(secs)

\* "".join(chars)
RECURSIVE Join(_)
Join(chars) == IF chars = <<>> THEN "" ELSE Head(chars) \o Join(Tail(chars))

\* str.split(sep) on a sequence of characters
RECURSIVE Split(_, _)
Split(chars, sep) ==
    IF \A k \in DOMAIN chars : chars[k] # sep THEN <<chars>>
    ELSE LET at == CHOOSE k \in DOMAIN chars :
                       chars[k] = sep /\ \A j \in 1..(k - 1) : chars[j] # sep
         IN  <<SubSeq(chars, 1, at - 1)>>
             \o Split(SubSeq(chars, at + 1, Len(chars)), sep)

\* int(text) for a text of decimal digits
RECURSIVE int(_)
int(chars) ==
    LET digit == CHOOSE d \in 0..9 : DigitChars[d + 1] = chars[Len(chars)]
    IN  IF Len(chars) = 1 THEN digit
        ELSE int(SubSeq(chars, 1, Len(chars) - 1)) * 10 + digit

get_transcript_path(media_path, ts) ==
    media_path \o (IF ts THEN ".transcript.json" ELSE ".transcript.txt")

\* A directory is missing, not a directory, or holds a set of media files
\* (given by their rank in sorted order).
DirectoryStates ==
    {[kind |-> "missing", content |-> {}], [kind |-> "notdir", content |-> {}]}
    \cup {[kind |-> "dir", content |-> c] : c \in SUBSET (1..MaxFiles)}

RECURSIVE SortedPaths(_, _)
SortedPaths(content, from) ==
    IF from > MaxFiles THEN <<>>
    ELSE (IF from \in content THEN <<from>> ELSE <<>>)
         \o SortedPaths(content, from + 1)

\* (mutant) a discovery that takes a missing directory for an empty one
find_media_files_lenient(dir) ==
    IF dir.kind = "notdir"
    THEN [raised |-> TRUE, error |-> "Not a directory", files |-> <<>>]
    ELSE [raised |-> FALSE, error |-> NULL, files |-> SortedPaths(dir.content, 1)]

\* find_media_files: raises for a missing directory or a non-directory,
\* else the sorted list of the media files (ranks; PathOf gives the path).
find_media_files(dir) ==
    IF dir.kind = "missing"
    THEN [raised |-> TRUE, error |-> "Directory not found", files |-> <<>>]
    ELSE IF dir.kind = "notdir"
    THEN [raised |-> TRUE, error |-> "Not a directory", files |-> <<>>]
    ELSE [raised |-> FALSE, error |-> NULL, files |-> SortedPaths(dir.content, 1)]

\* ------------------------------------------------------------ transcriber.py

\* The payload wait_for_completion returns.  results is a sequence of items
\* [type, alternatives]; iterable = FALSE is a payload whose results
\* attribute cannot be iterated (the for loop raises TypeError).
GoodPayload ==
    [has_transcript_text |-> TRUE, transcript_text |-> "hello world",
     has_results |-> TRUE, iterable |-> TRUE,
     results |-> <<[type |-> "word", alternatives |-> <<"hello">>],
                   [type |-> "punctuation", alternatives |-> <<".">>],
                   [type |-> "word", alternatives |-> <<>>]>>]
BadPayload ==
    [has_transcript_text |-> TRUE, transcript_text |-> "hello world",
     has_results |-> TRUE, iterable |-> FALSE, results |-> <<>>]
Payloads == {GoodPayload, BadPayload}

RECURSIVE ExtractFrom(_)
ExtractFrom(items) ==
    IF items = <<>> THEN <<>>
    ELSE LET item == Head(items)
         IN  (IF item.type = "word" /\ item.alternatives # <<>>
              THEN <<[word |-> Head(item.alternatives)]>>
              ELSE <<>>) \o ExtractFrom(Tail(items))

\* (mutant) an extraction that returns the empty list it built
_extract_words_empty_list(payload) ==
    IF ~payload.has_results THEN [present |-> FALSE, items |-> <<>>]
    ELSE [present |-> TRUE, items |-> ExtractFrom(payload.results)]

\* _extract_words: None (present = FALSE) without a results attribute or
\* when nothing was extracted.
_extract_words(payload) ==
    IF ~payload.has_results THEN [present |-> FALSE, items |-> <<>>]
    ELSE LET words == ExtractFrom(payload.results)
         IN  IF words # <<>> THEN [present |-> TRUE, items |-> words]
             ELSE [present |-> FALSE, items |-> <<>>]

\* An HTTPStatusError is [code, text, body]: the status code of its
\* response, str(error), and the body of the response: whether it parses as
\* a JSON object, whether the object has a "detail", and the detail.
DetailBody(detail) == [parses |-> TRUE, has_detail |-> TRUE, detail |-> detail]
NoDetailBody == [parses |-> TRUE, has_detail |-> FALSE, detail |-> NULL]
BadBody == [parses |-> FALSE, has_detail |-> FALSE, detail |-> NULL]

\* (mutant) a classification that answers 403 as it answers 401
_handle_http_error_merged(error) ==
    IF error.code = 429
    THEN "Rate limited by Speechmatics API. Please wait and try again."
    ELSE IF error.code = 403
    THEN "Invalid Speechmatics API key."
    ELSE IF error.code = 401
    THEN "Invalid Speechmatics API key."
    ELSE IF error.code = 400
    THEN "Invalid request: " \o
         (IF error.body.parses /\ error.body.has_detail
          THEN error.body.detail ELSE error.text)
    ELSE "API error (" \o ToString(error.code) \o "): " \o error.text

\* _handle_http_error: error.response.json().get("detail", str(error)), and
\* str(error) when the body does not parse
_handle_http_error(error) ==
    IF error.code = 429
    THEN "Rate limited by Speechmatics API. Please wait and try again."
    ELSE IF error.code = 403
    THEN "API quota exceeded or invalid API key. Check your Speechmatics account."
    ELSE IF error.code = 401
    THEN "Invalid Speechmatics API key."
    ELSE IF error.code = 400
    THEN "Invalid request: " \o
         (IF error.body.parses /\ error.body.has_detail
          THEN error.body.detail ELSE error.text)
    ELSE "API error (" \o ToString(error.code) \o "): " \o error.text

HttpErrors ==
    {[code |-> c, text |-> "Client error", body |-> DetailBody("detail")] :
        c \in HttpCodes}

\* What the try block of transcribe may raise: an HTTPStatusError, or another
\* exception with its str().
Exceptions ==
    {[kind |-> "http",
      error |-> [code |-> c, text |-> t, body |-> b], message |-> t] :
        c \in {429, 403, 401, 400, 404, 500, 503},
        t \in {"Client error", "Server error"},
        b \in {DetailBody("bad config"), DetailBody("bad audio"),
               NoDetailBody, BadBody}}
    \cup {[kind |-> "exception",
           error |-> [code |-> 0, text |-> m, body |-> BadBody], message |-> m] :
            m \in {"", "Connection refused", "timed out"}}

\* the error_message of the except clauses (lines 112 and 128)
error_message_of(exception) ==
    IF exception.kind = "http" THEN _handle_http_error(exception.error)
    ELSE exception.message

\* duration_seconds or 0
OrZero(duration) == IF duration = 0 THEN 0 ELSE duration

NotFoundResult(file_path) ==
    [file_path |-> file_path, transcript |-> "",
     words |-> [present |-> FALSE, items |-> <<>>],
     duration_seconds |-> 0, status |-> "error",
     error_message |-> "File not found: " \o file_path, job_id |-> NULL]

\* (mutant) an error outcome that keeps the id of the job submitted
ErrorResult_with_job_id(file_path, duration, error_message) ==
    [file_path |-> file_path, transcript |-> "",
     words |-> [present |-> FALSE, items |-> <<>>],
     duration_seconds |-> OrZero(duration), status |-> "error",
     error_message |-> error_message, job_id |-> "job-1"]

ErrorResult(file_path, duration, error_message) ==
    [file_path |-> file_path, transcript |-> "",
     words |-> [present |-> FALSE, items |-> <<>>],
     duration_seconds |-> OrZero(duration), status |-> "error",
     error_message |-> error_message, job_id |-> NULL]

SuccessResult(file_path, duration, payload, job_id) ==
    [file_path |-> file_path,
     transcript |-> IF payload.has_transcript_text
                    THEN payload.transcript_text ELSE "",
     words |-> _extract_words(payload),
     duration_seconds |-> OrZero(duration), status |-> "success",
     error_message |-> NULL, job_id |-> job_id]

JobId(i) == "job-" \o ToString(i)

\* a payload without transcript_text and without results
BarePayload ==
    [has_transcript_text |-> FALSE, transcript_text |-> NULL,
     has_results |-> FALSE, iterable |-> TRUE, results |-> <<>>]


\* a Python list, from the function on 1..n that gives its elements
List(f) == SubSeq(f, 1, Len(f))

\* dict.get(key, default) on the arguments of a tool call
Get(arguments, key, default) ==
    IF key \in DOMAIN arguments THEN arguments[key] ELSE default

\* (mutant) a task that reports the count it read before it counted itself
transcribe_with_limit_finish_stale(i, r, callback_ok) ==
    /\ completed' = completed + 1
    /\ progress' = IF has_callback
                   THEN Append(progress, [completed |-> completed,
                                          total |-> Len(files),
                                          current_file |-> files[i].file_path])
                   ELSE progress
    /\ IF has_callback /\ ~callback_ok
       THEN /\ pc' = [pc EXCEPT ![i] = "raised"]
            /\ result' = [result EXCEPT ![i] = NoResult]
       ELSE /\ pc' = [pc EXCEPT ![i] = "done"]
            /\ result' = [result EXCEPT ![i] = r]

\* lines 213-216 of transcribe_with_limit: count the item, call the progress
\* callback (which may raise), return the result
transcribe_with_limit_finish(i, r, callback_ok) ==
    /\ completed' = completed + 1
    /\ progress' = IF has_callback
                   THEN Append(progress, [completed |-> completed + 1,
                                          total |-> Len(files),
                                          current_file |-> files[i].file_path])
                   ELSE progress
    /\ IF has_callback /\ ~callback_ok
       THEN /\ pc' = [pc EXCEPT ![i] = "raised"]
            /\ result' = [result EXCEPT ![i] = NoResult]
       ELSE /\ pc' = [pc EXCEPT ![i] = "done"]
            /\ result' = [result EXCEPT ![i] = r]

\* transcribe_batch up to its await of asyncio.gather: Semaphore(value)
\* raises ValueError for a negative value.
transcribe_batch_raises(value) == value < 0

\* (mutant) a gate whose slots are never given back
release_forgotten(value) == value

\* Semaphore.release(), called when the async with block of
\* transcribe_with_limit is left, by a return or by an exception
release(value) == value + 1

\* (mutant) a gate that admits every task
never_locked == FALSE

\* Semaphore.locked(): no slot is free
locked == semaphore = 0

\* (mutant) a transcribe that builds its client before it looks for the file
calls_before_client_first(exit) ==
    IF exit = "not_found" THEN <<"AsyncClient">>
    ELSE IF exit = "client_raised" THEN <<>>
    ELSE <<"AsyncClient", "submit_job">>

\* What transcribe has done with a client when it leaves lines 68-92: by the
\* return of the existence check, by an exception of the AsyncClient
\* constructor, or by the await of submit_job.
calls_before(exit) ==
    IF exit = "not_found" THEN <<>>
    ELSE IF exit = "client_raised" THEN <<>>
    ELSE <<"AsyncClient", "submit_job">>

\* A task of the batch is admitted by the semaphore (waiters are served in
\* the order the tasks were created) and runs transcribe up to its first
\* await: the existence check, the client, submit_job.
transcribe_with_limit_start(i) ==
    /\ batch # "idle"
    /\ i \in Items
    /\ pc[i] = "pending"
    /\ ~locked
    /\ \A j \in 1..(i - 1) : pc[j] # "pending"
    /\ \/ \E callback_ok \in (IF has_callback THEN BOOLEAN ELSE {TRUE}) :
             /\ transcribe_with_limit_finish(
                    i, NotFoundResult(files[i].file_path), callback_ok)
             /\ fault' = [fault EXCEPT ![i] =
                              IF callback_ok THEN "missing" ELSE "callback"]
             /\ calls' = [calls EXCEPT ![i] = calls_before("not_found")]
             /\ UNCHANGED semaphore
       \/ /\ pc' = [pc EXCEPT ![i] = "raised"]
          /\ fault' = [fault EXCEPT ![i] = "client"]
          /\ calls' = [calls EXCEPT ![i] = calls_before("client_raised")]
          /\ UNCHANGED <<semaphore, completed, result, progress>>
       \/ /\ pc' = [pc EXCEPT ![i] = "submitting"]
          /\ semaphore' = semaphore - 1
          /\ calls' = [calls EXCEPT ![i] = calls_before("submit_job")]
          /\ UNCHANGED <<completed, result, fault, progress>>
    /\ UNCHANGED <<tool, hstate, response, files, with_timestamps,
                   has_callback, max_concurrent, batch, results, disk, usage,
                   target>>
    /\ UNCHANGED applied

\* (mutant) transcribe without its except Exception clause
caught_http_only(kind) == kind = "http"

\* The except clauses of transcribe (lines 111 and 123): the kinds of
\* exception of the try block they turn into an error result.
caught(kind) == kind \in {"http", "exception"}

\* (mutant) a transcribe without its finally clause
finally_skipped(log) == log

\* The finally of transcribe (lines 134-135) calls close on the client.
finally(log) == Append(log, "close")

\* (mutant) a transcribe that submits the job once more after a failure
raise_in_try_retried(i, kind, message, name) ==
    IF Len(SelectSeq(calls[i], LAMBDA op : op = "submit_job")) < 2
    THEN /\ pc' = [pc EXCEPT ![i] = "submitting"]
         /\ fault' = [fault EXCEPT ![i] = name]
         /\ calls' = [calls EXCEPT ![i] = Append(calls[i], "submit_job")]
         /\ UNCHANGED result
    ELSE /\ pc' = [pc EXCEPT ![i] = "closing"]
         /\ fault' = [fault EXCEPT ![i] = name]
         /\ result' = [result EXCEPT ![i] =
                IF caught(kind)
                THEN ErrorResult(files[i].file_path, files[i].duration, message)
                ELSE NoResult]
         /\ calls' = [calls EXCEPT ![i] = finally(calls[i])]

\* An exception in the try block of item i: its except clause builds the
\* error result, and the finally closes the client.  An exception no clause
\* catches would go on after the finally.
raise_in_try(i, kind, message, name) ==
    /\ pc' = [pc EXCEPT ![i] = "closing"]
    /\ fault' = [fault EXCEPT ![i] = name]
    /\ result' = [result EXCEPT ![i] =
           IF caught(kind)
           THEN ErrorResult(files[i].file_path, files[i].duration, message)
           ELSE NoResult]
    /\ calls' = [calls EXCEPT ![i] = finally(calls[i])]

\* await client.submit_job ends: a job, an HTTPStatusError or another
\* exception.
submit_job_done(i) ==
    /\ i \in Items
    /\ pc[i] = "submitting"
    /\ \/ /\ pc' = [pc EXCEPT ![i] = "waiting"]
          /\ calls' = [calls EXCEPT ![i] = Append(calls[i], "wait_for_completion")]
          /\ UNCHANGED <<result, fault>>
       \/ \E e \in HttpErrors :
             raise_in_try(i, "http", _handle_http_error(e), "submit_http")
       \/ raise_in_try(i, "exception", "submit failed", "submit_exception")
    /\ UNCHANGED <<tool, hstate, response, files, with_timestamps,
                   has_callback, max_concurrent, batch, semaphore, completed,
                   results, disk, usage, progress, target>>
    /\ UNCHANGED applied

\* await client.wait_for_completion ends: a payload (whose extraction may
\* raise), an HTTPStatusError or another exception; then the finally.
wait_for_completion_done(i) ==
    /\ i \in Items
    /\ pc[i] = "waiting"
    /\ \/ \E payload \in Payloads :
             IF payload.has_results /\ ~payload.iterable
             THEN raise_in_try(i, "exception", "extract failed",
                               "extract_exception")
             ELSE /\ pc' = [pc EXCEPT ![i] = "closing"]
                  /\ result' = [result EXCEPT ![i] = SuccessResult(
                         files[i].file_path, files[i].duration, payload, JobId(i))]
                  /\ calls' = [calls EXCEPT ![i] = finally(calls[i])]
                  /\ UNCHANGED fault
       \/ \E e \in HttpErrors :
             raise_in_try(i, "http", _handle_http_error(e), "wait_http")
       \/ raise_in_try(i, "exception", "wait failed", "wait_exception")
    /\ UNCHANGED <<tool, hstate, response, files, with_timestamps,
                   has_callback, max_concurrent, batch, semaphore, completed,
                   results, disk, usage, progress, target>>
    /\ UNCHANGED applied

\* -------------------------------------------------------------- server.py

\* write_transcript_file: the path written (the content is not modelled)
write_transcript_file(r, ts) == get_transcript_path(r.file_path, ts)

ErrorResponse(message) == [status |-> "error", error_message |-> message]

\* The state of the loop over results of handle_transcribe_directory.
LoopStart ==
    [transcripts |-> <<>>, files_processed |-> 0, files_failed |-> 0,
     total_duration |-> 0, written |-> {}, raised |-> FALSE]

\* (mutant) the loop adding the duration of every result to the total
process_result_total_of_all(acc, r, ts) ==
    IF r.status = "success"
    THEN [acc EXCEPT
            !.written = @ \cup {write_transcript_file(r, ts)},
            !.files_processed = @ + 1,
            !.total_duration = @ + r.duration_seconds,
            !.transcripts = Append(@,
                [file |-> r.file_path,
                 transcript_path |-> write_transcript_file(r, ts),
                 duration_seconds |-> r.duration_seconds,
                 status |-> "success"])]
    ELSE [acc EXCEPT
            !.files_failed = @ + 1,
            !.total_duration = @ + r.duration_seconds,
            !.transcripts = Append(@,
                [file |-> r.file_path,
                 transcript_path |-> NULL,
                 duration_seconds |-> r.duration_seconds,
                 status |-> "error",
                 error_message |-> r.error_message])]

\* (mutant) the loop counting a failed file as processed
process_result_miscounted(acc, r, ts) ==
    IF r.status = "success"
    THEN [acc EXCEPT
            !.written = @ \cup {write_transcript_file(r, ts)},
            !.files_processed = @ + 1,
            !.total_duration = @ + r.duration_seconds,
            !.transcripts = Append(@,
                [file |-> r.file_path,
                 transcript_path |-> write_transcript_file(r, ts),
                 duration_seconds |-> r.duration_seconds,
                 status |-> "success"])]
    ELSE [acc EXCEPT
            !.files_processed = @ + 1,
            !.transcripts = Append(@,
                [file |-> r.file_path,
                 transcript_path |-> NULL,
                 duration_seconds |-> r.duration_seconds,
                 status |-> "error",
                 error_message |-> r.error_message])]

\* One iteration of the loop (lines 310-328), for a result whose write
\* succeeds.
process_result(acc, r, ts) ==
    IF r.status = "success"
    THEN [acc EXCEPT
            !.written = @ \cup {write_transcript_file(r, ts)},
            !.files_processed = @ + 1,
            !.total_duration = @ + r.duration_seconds,
            !.transcripts = Append(@,
                [file |-> r.file_path,
                 transcript_path |-> write_transcript_file(r, ts),
                 duration_seconds |-> r.duration_seconds,
                 status |-> "success"])]
    ELSE [acc EXCEPT
            !.files_failed = @ + 1,
            !.transcripts = Append(@,
                [file |-> r.file_path,
                 transcript_path |-> NULL,
                 duration_seconds |-> r.duration_seconds,
                 status |-> "error",
                 error_message |-> r.error_message])]

\* The loop over results; write_fails are the positions whose open() or
\* write raises, which ends the handler with that exception (line 311 is
\* outside every try).
RECURSIVE process_results(_, _, _, _)
process_results(rs, ts, write_fails, acc) ==
    IF rs = <<>> THEN acc
    ELSE LET r == Head(rs)
             k == Len(acc.transcripts) + 1
         IN  IF r.status = "success" /\ k \in write_fails
             THEN [acc EXCEPT !.raised = TRUE]
             ELSE process_results(Tail(rs), ts, write_fails,
                                  process_result(acc, r, ts))

DirectoryReport(acc) ==
    [status |-> "success",
     files_processed |-> acc.files_processed,
     files_failed |-> acc.files_failed,
     transcripts |-> acc.transcripts,
     total_duration_seconds |-> acc.total_duration,
     total_duration_formatted |-> format_duration(acc.total_duration)]

EmptyReport ==
    [status |-> "success", files_processed |-> 0, files_failed |-> 0,
     transcripts |-> <<>>, total_duration_seconds |-> 0,
     message |-> "No media files found in directory"]

FileReport(transcript_path, duration) ==
    [status |-> "success", transcript_path |-> transcript_path,
     duration_seconds |-> duration,
     duration_formatted |-> format_duration(duration),
     accuracy |-> "standard"]

\* the arguments a caller may pass to transcribe_directory
DirectoryArguments ==
    {[accuracy |-> "standard"]}
    \cup {[directory |-> "dir", with_timestamps |-> ts] : ts \in BOOLEAN}
    \cup {[directory |-> "dir", max_concurrent |-> m] : m \in MaxConcurrentInputs}

\* the arguments a caller may pass to transcribe_file
FileArguments ==
    {[accuracy |-> "standard"]}
    \cup {[file_path |-> PathOf(1)]}
    \cup {[file_path |-> PathOf(1), with_timestamps |-> ts] : ts \in BOOLEAN}

\* (mutant) a handler that leaves out the files it could not probe
files_with_duration_dropping(media_files, probes) ==
    LET probed == [k \in 1..Len(media_files) |->
                      [file_path |-> PathOf(media_files[k]),
                       duration |-> DurationOf(media_files[k]),
                       ok |-> probes[k] = "ok"]]
        kept == SelectSeq(probed, LAMBDA f : f.ok)
    IN  List([k \in 1..Len(kept) |->
            [file_path |-> kept[k].file_path, duration |-> kept[k].duration]])

\* files_with_duration (lines 280-287): a failed probe gives duration 0
files_with_duration(media_files, probes) ==
    List([k \in 1..Len(media_files) |->
        [file_path |-> PathOf(media_files[k]),
         duration |-> IF probes[k] = "ok" THEN DurationOf(media_files[k]) ELSE 0]])

\* transcribe_batch, lines 199-223 up to the await of gather
StartBatch(fs, value, callback) ==
    /\ files' = fs
    /\ max_concurrent' = value
    /\ has_callback' = callback
    /\ semaphore' = value
    /\ completed' = 0
    /\ batch' = "running"
    /\ pc' = List([k \in 1..Len(fs) |-> "pending"])
    /\ result' = List([k \in 1..Len(fs) |-> NoResult])
    /\ fault' = List([k \in 1..Len(fs) |-> "none"])
    /\ calls' = List([k \in 1..Len(fs) |-> <<>>])
    /\ results' = <<>>

\* handle_transcribe_directory up to its await of transcribe_batch
handle_transcribe_directory ==
    /\ hstate = "idle"
    /\ tool' = "transcribe_directory"
    /\ \E arguments \in DirectoryArguments, dir \in DirectoryStates,
          key_ok \in BOOLEAN :
          IF "directory" \notin DOMAIN arguments
          THEN /\ hstate' = "raised"
               /\ UNCHANGED <<response, files, with_timestamps, has_callback,
                              max_concurrent, batch, semaphore, completed, pc,
                              result, fault, results, calls, target>>
          ELSE LET found == find_media_files(dir)
                   value == Get(arguments, "max_concurrent", DEFAULT_MAX_CONCURRENT)
               IN
               /\ target' = dir
               /\ with_timestamps' = Get(arguments, "with_timestamps", FALSE)
               /\ IF found.raised
                  THEN /\ hstate' = "returned"
                       /\ response' = ErrorResponse(found.error)
                       /\ UNCHANGED <<files, has_callback, max_concurrent, batch,
                                      semaphore, completed, pc, result, fault,
                                      results, calls>>
                  ELSE IF found.files = <<>>
                  THEN /\ hstate' = "returned"
                       /\ response' = EmptyReport
                       /\ UNCHANGED <<files, has_callback, max_concurrent, batch,
                                      semaphore, completed, pc, result, fault,
                                      results, calls>>
                  ELSE \E probes \in [1..Len(found.files) -> ProbeOutcomes] :
                       IF ~key_ok
                       THEN /\ hstate' = "returned"
                            /\ response' = ErrorResponse("no api key")
                            /\ files' = files_with_duration(found.files, probes)
                            /\ UNCHANGED <<has_callback, max_concurrent, batch,
                                           semaphore, completed, pc, result,
                                           fault, results, calls>>
                       ELSE IF transcribe_batch_raises(value)
                       THEN /\ hstate' = "returned"
                            /\ response' = ErrorResponse("Semaphore initial value must be >= 0")
                            /\ files' = files_with_duration(found.files, probes)
                            /\ max_concurrent' = value
                            /\ batch' = "raised"
                            /\ UNCHANGED <<has_callback, semaphore, completed, pc,
                                           result, fault, results, calls>>
                       ELSE /\ hstate' = "running"
                            /\ StartBatch(files_with_duration(found.files, probes),
                                          value, FALSE)
                            /\ UNCHANGED response
    /\ UNCHANGED <<disk, usage, progress>>
    /\ UNCHANGED applied


\* A direct call of transcribe_batch: a list of files in descending order or
\* one file repeated, any max_concurrent, with or without a progress
\* callback.
BatchInputs ==
    {[k \in 1..n |-> n + 1 - k] : n \in 0..MaxFiles}
    \cup {[k \in 1..n |-> 1] : n \in 2..MaxFiles}

transcribe_batch ==
    /\ hstate = "idle"
    /\ tool' = "transcribe_batch"
    /\ \E ranks \in BatchInputs, value \in MaxConcurrentInputs,
          callback \in BOOLEAN :
          LET fs == List([k \in 1..Len(ranks) |->
                        [file_path |-> PathOf(ranks[k]),
                         duration |-> DurationOf(ranks[k])]])
          IN  IF transcribe_batch_raises(value)
              THEN /\ hstate' = "raised"
                   /\ batch' = "raised"
                   /\ files' = fs
                   /\ max_concurrent' = value
                   /\ has_callback' = callback
                   /\ UNCHANGED <<semaphore, completed, pc, result, fault,
                                  results, calls>>
              ELSE /\ hstate' = "running"
                   /\ StartBatch(fs, value, callback)
    /\ UNCHANGED <<response, with_timestamps, disk, usage, progress, target>>
    /\ UNCHANGED applied

\* (mutant) results collected in the opposite order
gather_reversed(rs) == List([k \in 1..Len(files) |-> rs[Len(files) + 1 - k]])

\* asyncio.gather returns the results in the order of its arguments once
\* every task is done.
gather(rs) == List([k \in 1..Len(files) |-> rs[k]])

\* gather returns; handle_transcribe_directory goes on to the end (lines
\* 303-337) without another await.
gather_returns ==
    /\ batch = "running"
    /\ \A i \in Items : pc[i] = "done"
    /\ batch' = "returned"
    /\ results' = gather(result)
    /\ IF tool = "transcribe_directory"
       THEN \E write_fails \in SUBSET {k \in Items : result[k].status = "success"} :
               LET acc == process_results(gather(result), with_timestamps,
                                          write_fails, LoopStart)
               IN  /\ disk' = disk \cup acc.written
                   /\ IF acc.raised
                      THEN hstate' = "raised" /\ UNCHANGED response
                      ELSE hstate' = "returned" /\ response' = DirectoryReport(acc)
       ELSE /\ hstate' = "returned"
            /\ UNCHANGED <<response, disk>>
    /\ UNCHANGED <<tool, files, with_timestamps, has_callback, max_concurrent,
                   semaphore, completed, pc, result, fault, usage, progress,
                   calls, target>>
    /\ UNCHANGED applied

\* gather raises the first exception of a task to its awaiter; the other
\* tasks are not cancelled.  handle_transcribe_directory catches it
\* (lines 297-301).
gather_raises ==
    /\ batch = "running"
    /\ \E i \in Items : pc[i] = "raised"
    /\ batch' = "raised"
    /\ IF tool = "transcribe_directory"
       THEN /\ hstate' = "returned"
            /\ response' = ErrorResponse("task failed")
       ELSE /\ hstate' = "raised"
            /\ UNCHANGED response
    /\ UNCHANGED <<tool, files, with_timestamps, has_callback, max_concurrent,
                   semaphore, completed, pc, result, fault, results, disk,
                   usage, progress, calls, target>>
    /\ UNCHANGED applied

\* handle_transcribe_file after transcribe returned r (lines 228-243); the
\* write is inside the try.
file_response(r, write_ok) ==
    IF r.status = "none" THEN ErrorResponse("transcribe failed")
    ELSE IF r.status = "error" THEN ErrorResponse(r.error_message)
    ELSE IF ~write_ok THEN ErrorResponse("write failed")
    ELSE FileReport(write_transcript_file(r, with_timestamps), files[1].duration)

file_written(r, write_ok) ==
    IF r.status = "success" /\ write_ok
    THEN {write_transcript_file(r, with_timestamps)} ELSE {}

\* await client.close() of the finally ends: transcribe returns its result,
\* or raises what close raised (or what no except clause caught).  In a
\* batch the task then counts the item and leaves the semaphore; in
\* transcribe_file the handler goes on to its response.
close_done(i) ==
    /\ i \in Items
    /\ pc[i] = "closing"
    /\ IF tool = "transcribe_file"
       THEN /\ hstate' = "returned"
            /\ \/ \E write_ok \in (IF result[i].status = "success"
                                   THEN BOOLEAN ELSE {TRUE}) :
                     /\ pc' = [pc EXCEPT ![i] =
                                  IF result[i] = NoResult THEN "raised" ELSE "done"]
                     /\ response' = file_response(result[i], write_ok)
                     /\ disk' = disk \cup file_written(result[i], write_ok)
                     /\ UNCHANGED <<result, fault>>
               \/ /\ pc' = [pc EXCEPT ![i] = "raised"]
                  /\ result' = [result EXCEPT ![i] = NoResult]
                  /\ fault' = [fault EXCEPT ![i] = "close"]
                  /\ response' = ErrorResponse("close failed")
                  /\ UNCHANGED disk
            /\ UNCHANGED <<semaphore, completed, progress>>
       ELSE /\ semaphore' = release(semaphore)
            /\ \/ /\ result[i] # NoResult
                  /\ \E callback_ok \in (IF has_callback THEN BOOLEAN ELSE {TRUE}) :
                        /\ transcribe_with_limit_finish(i, result[i], callback_ok)
                        /\ fault' = IF callback_ok THEN fault
                                    ELSE [fault EXCEPT ![i] = "callback"]
               \/ /\ result[i] = NoResult
                  /\ pc' = [pc EXCEPT ![i] = "raised"]
                  /\ UNCHANGED <<result, fault, completed, progress>>
               \/ /\ pc' = [pc EXCEPT ![i] = "raised"]
                  /\ result' = [result EXCEPT ![i] = NoResult]
                  /\ fault' = [fault EXCEPT ![i] = "close"]
                  /\ UNCHANGED <<completed, progress>>
            /\ UNCHANGED <<hstate, response, disk>>
    /\ UNCHANGED <<tool, files, with_timestamps, has_callback, max_concurrent,
                   batch, results, usage, calls, target>>
    /\ UNCHANGED applied

\* handle_transcribe_file up to the first await of transcribe (submit_job)
handle_transcribe_file ==
    /\ hstate = "idle"
    /\ tool' = "transcribe_file"
    /\ \E arguments \in FileArguments, exists \in BOOLEAN,
          probe \in ProbeOutcomes, key_ok \in BOOLEAN, still_exists \in BOOLEAN,
          client_ok \in BOOLEAN :
          IF "file_path" \notin DOMAIN arguments
          THEN /\ hstate' = "raised"
               /\ UNCHANGED <<response, files, with_timestamps, pc, result, fault,
                              calls, target>>
          ELSE LET fs == <<[file_path |-> arguments.file_path,
                            duration |-> DurationOf(1)]>>
               IN
               /\ target' = [kind |-> IF ~exists THEN "missing"
                                       ELSE IF probe = "failed" THEN "unprobeable"
                                       ELSE "file",
                              content |-> {}]
               /\ with_timestamps' = Get(arguments, "with_timestamps", FALSE)
               /\ IF ~exists
                  THEN /\ hstate' = "returned"
                       /\ response' = ErrorResponse(
                              "File not found: " \o arguments.file_path)
                       /\ UNCHANGED <<files, pc, result, fault, calls>>
                  ELSE IF probe = "failed"
                  THEN /\ hstate' = "returned"
                       /\ response' = ErrorResponse(
                              "Could not determine audio duration")
                       /\ UNCHANGED <<files, pc, result, fault, calls>>
                  ELSE IF ~key_ok
                  THEN /\ hstate' = "returned"
                       /\ response' = ErrorResponse("no api key")
                       /\ UNCHANGED <<files, pc, result, fault, calls>>
                  ELSE IF ~still_exists
                  THEN /\ hstate' = "returned"
                       /\ response' = ErrorResponse(
                              NotFoundResult(arguments.file_path).error_message)
                       /\ files' = fs
                       /\ pc' = <<"done">>
                       /\ result' = <<NotFoundResult(arguments.file_path)>>
                       /\ fault' = <<"missing">>
                       /\ calls' = <<calls_before("not_found")>>
                  ELSE IF ~client_ok
                  THEN /\ hstate' = "returned"
                       /\ response' = ErrorResponse("client failed")
                       /\ files' = fs
                       /\ pc' = <<"raised">>
                       /\ result' = <<NoResult>>
                       /\ fault' = <<"client">>
                       /\ calls' = <<calls_before("client_raised")>>
                  ELSE /\ hstate' = "running"
                       /\ files' = fs
                       /\ pc' = <<"submitting">>
                       /\ result' = <<NoResult>>
                       /\ fault' = <<"none">>
                       /\ calls' = <<calls_before("submit_job")>>
                       /\ UNCHANGED response
    /\ UNCHANGED <<has_callback, max_concurrent, batch, semaphore, completed,
                   results, disk, usage, progress>>
    /\ UNCHANGED applied

\* (mutant) a lookup that probes the JSON suffix first
find_transcript_json_first(media_path, existing) ==
    IF media_path \o ".transcript.json" \in existing
    THEN media_path \o ".transcript.json"
    ELSE IF media_path \o ".transcript.txt" \in existing
    THEN media_path \o ".transcript.txt"
    ELSE NULL

\* find_transcript: the text suffix is probed first
find_transcript(media_path, existing) ==
    IF media_path \o ".transcript.txt" \in existing
    THEN media_path \o ".transcript.txt"
    ELSE IF media_path \o ".transcript.json" \in existing
    THEN media_path \o ".transcript.json"
    ELSE NULL

\* What a transcript file may hold.  A text file is given by the fields of
\* its "# Duration:" line split at ":" (none for "unknown") and its body; a
\* JSON file by its object, or it does not parse; any file may be unreadable.
TextContents ==
    {[readable |-> TRUE, parts |-> ps, transcript |-> "hello world"] :
        ps \in {<<>>, <<2, 5>>, <<1, 2, 5>>}}
    \cup {[readable |-> FALSE, parts |-> <<>>, transcript |-> ""]}
JsonContents ==
    {[readable |-> TRUE, duration_seconds |-> 125, transcript |-> "hello world",
      words |-> ws] : ws \in {<<>>, <<[word |-> "hello"]>>}}
    \cup {[readable |-> FALSE, duration_seconds |-> 0, transcript |-> "",
           words |-> <<>>]}

\* the duration parsed from the header (lines 399-409)
parse_duration(parts) ==
    IF Len(parts) = 2 THEN parts[1] * 60 + parts[2]
    ELSE IF Len(parts) = 3 THEN parts[1] * 3600 + parts[2] * 60 + parts[3]
    ELSE NULL

\* lines 398-409 on the text after "# Duration:": split at ":", and two or
\* three fields are read as numbers
parse_duration_chars(chars) ==
    LET parts == Split(chars, ":")
    IN  IF Len(parts) \in {2, 3}
        THEN parse_duration(List([k \in 1..Len(parts) |-> int(parts[k])]))
        ELSE NULL

\* A float number of seconds is a whole number of ticks.
TicksPerSecond == 10

\* The text of a transcript file is a sequence of characters; a run of
\* characters that holds no colon and no white space is one element.
WhiteSpace == {" ", "\n", "\r"}

\* str.strip()
RECURSIVE strip(_)
strip(chars) ==
    IF chars = <<>> THEN <<>>
    ELSE IF Head(chars) \in WhiteSpace THEN strip(Tail(chars))
    ELSE IF chars[Len(chars)] \in WhiteSpace
    THEN strip(SubSeq(chars, 1, Len(chars) - 1))
    ELSE chars

\* "\n".join(lines)
RECURSIVE JoinLines(_)
JoinLines(lines) ==
    IF lines = <<>> THEN <<>>
    ELSE IF Len(lines) = 1 THEN lines[1]
    ELSE lines[1] \o <<"\n">> \o JoinLines(Tail(lines))

\* (mutant) a writer that formats every duration, 0 too
duration_str_always_formatted(ticks) ==
    format_duration_chars(ticks, TicksPerSecond)

\* line 70: format_duration(result.duration_seconds) if
\* result.duration_seconds else "unknown"
duration_str(ticks) ==
    IF ticks # 0 THEN format_duration_chars(ticks, TicksPerSecond)
    ELSE <<"unknown">>

\* lines 71-78: the header and the transcript, as written to the text file
text_file(r) ==
    <<"# Transcribed", ":", " ", "2026-11-01T06", ":", "00", ":", "00+00",
      ":", "00", "\n",
      "# Source", ":", " ", r.file_path, "\n",
      "# Duration", ":", " ">> \o duration_str(r.duration_ticks) \o
    <<"\n", "# Accuracy", ":", " ", "standard", "\n", "\n">> \o r.transcript

\* (mutant) a writer that leaves the words out when there are none
json_file_without_empty_words(r) ==
    IF r.words.present /\ r.words.items # <<>>
    THEN [readable |-> TRUE, duration_seconds |-> r.duration_ticks,
          transcript |-> r.transcript, words |-> r.words.items]
    ELSE [readable |-> FALSE, duration_seconds |-> r.duration_ticks,
          transcript |-> r.transcript, words |-> <<>>]

\* lines 57-68: the object json.dump writes, with "words": result.words or
\* []; json.loads gives the same object back
json_file(r) ==
    [readable |-> TRUE, duration_seconds |-> r.duration_ticks,
     transcript |-> r.transcript,
     words |-> IF r.words.present /\ r.words.items # <<>>
               THEN r.words.items ELSE <<>>]

\* open(path, "r").read(): a text file is read with universal newlines
RECURSIVE read(_)
read(chars) ==
    IF chars = <<>> THEN <<>>
    ELSE IF Head(chars) = "\r"
    THEN <<"\n">> \o read(IF Len(chars) > 1 /\ chars[2] = "\n"
                           THEN SubSeq(chars, 3, Len(chars))
                           ELSE Tail(chars))
    ELSE <<Head(chars)>> \o read(Tail(chars))

\* line.startswith("# Duration:")
IsDurationLine(line) ==
    Len(line) >= 2 /\ line[1] = "# Duration" /\ line[2] = ":"

\* lines 386-409: what the text branch of get_transcript finds in a content:
\* the transcript after the first empty line, and the fields of the first
\* "# Duration:" line among the first five lines
parse_text(content) ==
    LET lines == Split(content, "\n")
        blank == {k \in DOMAIN lines : lines[k] = <<>>}
        first == IF blank = {} THEN Len(lines)
                 ELSE CHOOSE k \in blank : \A j \in blank : k <= j
        head5 == {k \in DOMAIN lines : k <= 5 /\ IsDurationLine(lines[k])}
        at == CHOOSE k \in head5 : \A j \in head5 : k <= j
        fields == IF head5 = {} THEN <<>>
                  ELSE Split(strip(SubSeq(lines[at], 3, Len(lines[at]))), ":")
    IN  [readable |-> TRUE,
         parts |-> IF Len(fields) \in {2, 3}
                   THEN List([k \in 1..Len(fields) |-> int(fields[k])])
                   ELSE <<>>,
         transcript |-> strip(JoinLines(SubSeq(lines, first + 1, Len(lines))))]

\* the paths a caller may pass to get_transcript
TranscriptArguments ==
    {[accuracy |-> "standard"]}
    \cup {[file_path |-> f] :
            f \in {PathOf(1), PathOf(1) \o ".transcript.txt",
                   PathOf(1) \o ".transcript.json"}}

\* handle_get_transcript, lines 363-423, for a path of the given suffix
read_transcript(transcript_path, is_json, source_media, existing, text, json) ==
    IF transcript_path \notin existing
    THEN ErrorResponse("Transcript file not found: " \o transcript_path)
    ELSE IF is_json
    THEN IF ~json.readable THEN ErrorResponse("Failed to read transcript")
         ELSE [status |-> "success", transcript |-> json.transcript,
               source_media |-> source_media,
               duration_seconds |-> json.duration_seconds,
               has_timestamps |-> TRUE, word_count |-> Len(json.words)]
    ELSE IF ~text.readable THEN ErrorResponse("Failed to read transcript")
         ELSE [status |-> "success", transcript |-> text.transcript,
               source_media |-> source_media,
               duration_seconds |-> parse_duration(text.parts),
               has_timestamps |-> FALSE]

\* handle_get_transcript: no await, one step.  existing are the transcript
\* files on disk when it is called.
handle_get_transcript ==
    /\ hstate = "idle"
    /\ tool' = "get_transcript"
    /\ \E arguments \in TranscriptArguments,
          existing \in SUBSET {PathOf(1) \o ".transcript.txt",
                               PathOf(1) \o ".transcript.json"},
          text \in TextContents, json \in JsonContents :
          IF "file_path" \notin DOMAIN arguments
          THEN /\ hstate' = "raised"
               /\ UNCHANGED <<response, disk>>
          ELSE LET file_path == arguments.file_path
                   media == PathOf(1)
               IN
               /\ hstate' = "returned"
               /\ disk' = existing
               /\ IF file_path = media \o ".transcript.txt"
                  THEN response' = read_transcript(file_path, FALSE, media,
                                                   existing, text, json)
                  ELSE IF file_path = media \o ".transcript.json"
                  THEN response' = read_transcript(file_path, TRUE, media,
                                                   existing, text, json)
                  ELSE LET transcript_path == find_transcript(file_path, existing)
                       IN  IF transcript_path = NULL
                           THEN response' = ErrorResponse(
                                    "No transcript found for: " \o file_path)
                           ELSE response' = read_transcript(
                                    transcript_path,
                                    transcript_path = file_path \o ".transcript.json",
                                    file_path, existing, text, json)
    /\ UNCHANGED <<files, with_timestamps, has_callback, max_concurrent, batch,
                   semaphore, completed, pc, result, fault, results, usage, progress,
                   calls, target>>
    /\ UNCHANGED applied

\* The jobs list_jobs may return.  created is absent ("none"), unparseable
\* ("bad") or a time: wall is its wall-clock time in seconds after 00:00 of
\* the first day of the current UTC month, offset its UTC offset in seconds.
MaxJobs == 2
JobKinds ==
    {[created |-> c, wall |-> 0, offset |-> 0, duration |-> 3600] :
        c \in {"none", "bad"}}
    \cup {[created |-> "time", wall |-> w, offset |-> o, duration |-> d] :
            w \in {-1, 0, 7200}, o \in {0, 10800}, d \in {0, 100, 1800}}
JobLists == UNION {[1..n -> JobKinds] : n \in 0..MaxJobs}

\* lines 245-256 for one job: job_date.replace(tzinfo=None) >= month_start
counts_this_month(job) == job.created = "time" /\ job.wall >= 0

RECURSIVE count_jobs(_)
count_jobs(jobs) ==
    IF jobs = <<>> THEN [jobs_this_month |-> 0, total_duration_seconds |-> 0]
    ELSE LET rest == count_jobs(Tail(jobs))
         IN  IF counts_this_month(Head(jobs))
             THEN [jobs_this_month |-> rest.jobs_this_month + 1,
                   total_duration_seconds |->
                       rest.total_duration_seconds + Head(jobs).duration]
             ELSE rest

\* the dict get_usage returns; hours_used_this_month is in hundredths of an
\* hour: round(hours_used, 2) is the nearest hundredth (no total of the
\* durations tried lies half-way between two hundredths)
usage_dict(jobs) ==
    [hours_used_this_month |->
         (count_jobs(jobs).total_duration_seconds * 100 + 1800) \div 3600,
     jobs_this_month |-> count_jobs(jobs).jobs_this_month]

usage_error(message) ==
    [error |-> message, hours_used_this_month |-> NULL, jobs_this_month |-> NULL]

\* handle_get_usage up to the await of list_jobs
handle_get_usage ==
    /\ hstate = "idle"
    /\ tool' = "get_usage"
    /\ \/ /\ hstate' = "returned"
          /\ response' = ErrorResponse("no api key")
          /\ UNCHANGED usage
       \/ /\ hstate' = "returned"
          /\ response' = ErrorResponse("client failed")
          /\ UNCHANGED usage
       \/ /\ hstate' = "running"
          /\ usage' = [pc |-> "listing", calls |-> <<"AsyncClient", "list_jobs">>]
          /\ UNCHANGED response
    /\ UNCHANGED <<files, with_timestamps, has_callback, max_concurrent, batch,
                   semaphore, completed, pc, result, fault, results, disk, progress,
                   calls, target>>
    /\ UNCHANGED applied

\* await client.list_jobs() ends; get_usage builds its dict and enters the
\* finally
list_jobs_done ==
    /\ usage.pc = "listing"
    /\ \/ \E jobs \in JobLists :
             usage' = [pc |-> "closing", calls |-> finally(usage.calls),
                       jobs |-> jobs, value |-> usage_dict(jobs)]
       \/ usage' = [pc |-> "closing", calls |-> finally(usage.calls),
                    value |-> usage_error("list_jobs failed")]
    /\ UNCHANGED <<tool, hstate, response, files, with_timestamps, has_callback,
                   max_concurrent, batch, semaphore, completed, pc, result,
                   fault, results, disk, progress, calls, target>>
    /\ UNCHANGED applied

\* await client.close() of get_usage ends; handle_get_usage responds
usage_close_done ==
    /\ usage.pc = "closing"
    /\ hstate' = "returned"
    /\ \/ /\ usage' = [usage EXCEPT !.pc = "done"]
          /\ response' = [status |-> "success", usage |-> usage.value]
       \/ /\ usage' = [pc |-> "raised", calls |-> usage.calls]
          /\ response' = ErrorResponse("close failed")
    /\ UNCHANGED <<tool, files, with_timestamps, has_callback, max_concurrent,
                   batch, semaphore, completed, pc, result, fault, results,
                   disk, progress, calls, target>>
    /\ UNCHANGED applied

Init ==
    /\ tool = "none"
    /\ hstate = "idle"
    /\ response = NoResponse
    /\ files = <<>>
    /\ with_timestamps = FALSE
    /\ has_callback = FALSE
    /\ max_concurrent = 0
    /\ batch = "idle"
    /\ semaphore = 0
    /\ completed = 0
    /\ pc = <<>>
    /\ result = <<>>
    /\ fault = <<>>
    /\ results = <<>>
    /\ disk = {}
    /\ usage = [pc |-> "idle"]
    /\ progress = <<>>
    /\ calls = <<>>
    /\ target = [kind |-> "none", content |-> {}]
    /\ applied = [f |-> "none"]

Next ==
    \/ handle_transcribe_file
    \/ handle_transcribe_directory
    \/ handle_get_transcript
    \/ handle_get_usage
    \/ list_jobs_done
    \/ usage_close_done
    \/ transcribe_batch
    \/ \E i \in Items : transcribe_with_limit_start(i)
    \/ \E i \in Items : submit_job_done(i)
    \/ \E i \in Items : wait_for_completion_done(i)
    \/ \E i \in Items : close_done(i)
    \/ gather_returns
    \/ gather_raises

Spec == Init /\ [][Next]_vars

\* The event loop runs every task that can run, every remote call ends and
\* every await of a finished call resumes.  Nothing makes a caller call.
Fairness ==
    /\ \A i \in 1..MaxFiles :
          /\ WF_vars(transcribe_with_limit_start(i))
          /\ WF_vars(submit_job_done(i))
          /\ WF_vars(wait_for_completion_done(i))
          /\ WF_vars(close_done(i))
    /\ WF_vars(gather_returns)
    /\ WF_vars(gather_raises)
    /\ WF_vars(list_jobs_done)
    /\ WF_vars(usage_close_done)

FairSpec == Spec /\ Fairness

\* ------------------------------------------ the functions applied on their own

server_vars == <<tool, hstate, response, files, with_timestamps, has_callback,
                 max_concurrent, batch, semaphore, completed, pc, result,
                 fault, results, disk, usage, progress, calls, target>>

\* the except clauses of transcribe (lines 111-133) build the error result
\* of an exception of the try block
transcribe_except ==
    /\ applied.f = "none"
    /\ \E exception \in Exceptions :
          applied' = [f |-> "transcribe_except", arg |-> exception,
                      value |-> ErrorResult(PathOf(1), DurationOf(1),
                                            error_message_of(exception))]
    /\ UNCHANGED server_vars

\* whole numbers of seconds to format
MaxSeconds == 130
DurationInputs ==
    0..MaxSeconds \cup {599, 600, 3599, 3600, 3661, 3725, 35999, 36000, 360000}

\* format_duration of a whole number of seconds, and the header parser of
\* get_transcript on its text
format_duration_applied ==
    /\ applied.f = "none"
    /\ \E seconds \in DurationInputs :
          applied' = [f |-> "format_duration", arg |-> seconds,
                      value |-> [text |-> format_duration(seconds),
                                 chars |-> format_duration_chars(seconds, 1),
                                 parsed |-> parse_duration_chars(
                                     format_duration_chars(seconds, 1))]]
    /\ UNCHANGED server_vars

\* The success outcomes given to write_transcript_file: a transcript of up
\* to MaxLen characters, words absent, empty or present, and a duration in
\* ticks (0, half a second, one second, 45.5 s, 2:05, 1:02:05.9).
MaxLen == 4
TranscriptChars == {"a", " ", "\n", "\r"}
Transcripts == UNION {[1..n -> TranscriptChars] : n \in 0..MaxLen}
WordLists ==
    {[present |-> FALSE, items |-> <<>>], [present |-> TRUE, items |-> <<>>],
     [present |-> TRUE, items |-> <<[word |-> "a"], [word |-> "a"]>>]}
DurationTicks == {0, 5, 10, 455, 1250, 37259}
SuccessOutcomes ==
    {[file_path |-> PathOf(1), transcript |-> t, words |-> w,
      duration_ticks |-> d, status |-> "success"] :
        t \in Transcripts, w \in WordLists, d \in DurationTicks}

\* write_transcript_file writes a success outcome in one of the two formats
write_transcript_file_applied ==
    /\ applied.f = "none"
    /\ \E r \in SuccessOutcomes, ts \in BOOLEAN :
          applied' = [f |-> "write_transcript_file",
                      arg |-> [result |-> r, with_timestamps |-> ts],
                      value |-> [path |-> write_transcript_file(r, ts),
                                 content |-> IF ts THEN json_file(r)
                                             ELSE text_file(r)]]
    /\ UNCHANGED server_vars

\* get_transcript is called with the path write_transcript_file returned,
\* the file being as it was written
get_transcript_applied ==
    /\ applied.f = "write_transcript_file"
    /\ LET path == applied.value.path
           media == applied.arg.result.file_path
           is_json == path = media \o ".transcript.json"
           none == [readable |-> FALSE, parts |-> <<>>, transcript |-> <<>>,
                    duration_seconds |-> 0, words |-> <<>>]
       IN  applied' =
               [f |-> "get_transcript", arg |-> applied.arg,
                value |-> IF is_json
                          THEN read_transcript(path, TRUE, media, {path}, none,
                                               applied.value.content)
                          ELSE read_transcript(path, FALSE, media, {path},
                                               parse_text(read(applied.value.content)),
                                               none)]
    /\ UNCHANGED server_vars

\* What the collaborators of one transcribe call do: the file exists or
\* not, and the provider answers with a payload or with an exception.
Replies ==
    {[kind |-> "payload", payload |-> p] :
        p \in {GoodPayload, BadPayload, BarePayload}}
    \cup Exceptions

\* transcribe (lines 68-133) as a function of what its collaborators do
transcribe_result(file_path, duration, exists, reply) ==
    IF ~exists THEN NotFoundResult(file_path)
    ELSE IF reply.kind = "payload"
    THEN IF reply.payload.has_results /\ ~reply.payload.iterable
         THEN ErrorResult(file_path, duration, "object is not iterable")
         ELSE SuccessResult(file_path, duration, reply.payload, JobId(1))
    ELSE ErrorResult(file_path, duration, error_message_of(reply))

transcribe_applied ==
    /\ applied.f = "none"
    /\ \E exists \in BOOLEAN, reply \in Replies, duration \in {0, DurationOf(1)} :
          applied' = [f |-> "transcribe",
                      arg |-> [file_path |-> PathOf(1), duration |-> duration,
                               exists |-> exists, reply |-> reply],
                      value |-> transcribe_result(PathOf(1), duration, exists,
                                                  reply)]
    /\ UNCHANGED server_vars

\* The items of a payload's results: words with one or two alternatives
\* or none, punctuation, an item without a type; up to MaxItems of them.
MaxItems == 3
ItemKinds ==
    {[type |-> "word", alternatives |-> <<"a">>],
     [type |-> "word", alternatives |-> <<"b", "c">>],
     [type |-> "word", alternatives |-> <<>>],
     [type |-> "punctuation", alternatives |-> <<".">>],
     [type |-> NULL, alternatives |-> <<"a">>]}
ResultPayloads ==
    {[has_transcript_text |-> TRUE, transcript_text |-> "hello world",
      has_results |-> TRUE, iterable |-> TRUE, results |-> items] :
        items \in UNION {[1..n -> ItemKinds] : n \in 0..MaxItems}}
    \cup {BarePayload}

\* _extract_words on the payload of a completed job
_extract_words_applied ==
    /\ applied.f = "none"
    /\ \E payload \in ResultPayloads :
          applied' = [f |-> "_extract_words", arg |-> payload,
                      value |-> _extract_words(payload)]
    /\ UNCHANGED server_vars

\* The two transcript files of one media file, with their contents.  A file
\* that is not there has the content of an empty one; a JSON file that was
\* cut short does not parse.
NoJson ==
    [readable |-> FALSE, duration_seconds |-> 0, transcript |-> <<>>,
     words |-> <<>>]
NoFiles ==
    [txt |-> [exists |-> FALSE, content |-> <<>>],
     json |-> [exists |-> FALSE, content |-> NoJson]]

\* The outcomes transcribe may hand to a handler for the media file: two
\* successes with different transcripts, and an error.
StoredOutcomes ==
    {[file_path |-> PathOf(1), transcript |-> t,
      words |-> [present |-> TRUE, items |-> <<[word |-> "a"]>>],
      duration_ticks |-> 1250, status |-> "success"] :
        t \in {<<"a">>, <<"a", "a">>}}
    \cup {[file_path |-> PathOf(1), transcript |-> <<>>,
           words |-> [present |-> FALSE, items |-> <<>>],
           duration_ticks |-> 0, status |-> "error"]}

\* a transcript written by an earlier run
OldOutcome ==
    [file_path |-> PathOf(1), transcript |-> <<"a", " ", "a">>,
     words |-> [present |-> TRUE, items |-> <<>>],
     duration_ticks |-> 455, status |-> "success"]

\* What may be on disk for the media file before the first call.
OldFiles ==
    {[txt |-> t, json |-> j] :
        t \in {NoFiles.txt, [exists |-> TRUE, content |-> text_file(OldOutcome)]},
        j \in {NoFiles.json, [exists |-> TRUE, content |-> json_file(OldOutcome)]}}

\* the transcript paths that exist (os.path.exists)
exists(store, media_path) ==
    {media_path \o ".transcript.txt" : x \in {store.txt.exists} \ {FALSE}}
    \cup {media_path \o ".transcript.json" : x \in {store.json.exists} \ {FALSE}}

\* write_transcript_file on the files of the media file: open(output_path,
\* "w") empties the file of the chosen format and the content is written to
\* it; when the write raises the file stays cut short.
open_w(store, r, ts, write_ok) ==
    LET output_path == write_transcript_file(r, ts)
    IN  IF output_path = r.file_path \o ".transcript.json"
        THEN [store EXCEPT !.json =
                 [exists |-> TRUE,
                  content |-> IF write_ok THEN json_file(r) ELSE NoJson]]
        ELSE [store EXCEPT !.txt =
                 [exists |-> TRUE,
                  content |-> IF write_ok THEN text_file(r) ELSE <<>>]]

NoCall == [handler |-> "none"]

\* One call of a transcribing handler on the media file, from the outcome
\* of transcribe on: the files are written for a success outcome only.  The
\* call before it and the files as they were are kept.
handler_applied(handler, r, ts, write_ok, old) ==
    LET before == IF applied.f = "none" THEN old ELSE applied.store
        prev == IF applied.f = "none" THEN NoCall ELSE applied.last
    IN  [f |-> handler,
         last |-> [handler |-> handler, result |-> r, with_timestamps |-> ts,
                   write_ok |-> write_ok],
         prev |-> prev,
         before |-> before,
         store |-> IF r.status = "success"
                   THEN open_w(before, r, ts, write_ok) ELSE before,
         value |-> IF r.status = "success" /\ write_ok
                   THEN [status |-> "success",
                         transcript_path |-> write_transcript_file(r, ts)]
                   ELSE IF r.status = "success" /\ handler = "transcribe_directory"
                   THEN [status |-> "raised", transcript_path |-> NULL]
                   ELSE [status |-> "error", transcript_path |-> NULL]]

\* handle_transcribe_file from the outcome of transcribe on (lines 228-249)
handle_transcribe_file_applied ==
    /\ applied.f \in {"none", "transcribe_file", "transcribe_directory"}
    /\ \E r \in StoredOutcomes, ts \in BOOLEAN, write_ok \in BOOLEAN,
          old \in OldFiles :
          /\ r.status = "error" => write_ok
          /\ applied' = handler_applied("transcribe_file", r, ts, write_ok, old)
    /\ UNCHANGED server_vars

\* the loop of handle_transcribe_directory over the outcome of the media
\* file (lines 309-328)
handle_transcribe_directory_applied ==
    /\ applied.f \in {"none", "transcribe_file", "transcribe_directory"}
    /\ \E r \in StoredOutcomes, ts \in BOOLEAN, write_ok \in BOOLEAN,
          old \in OldFiles :
          /\ r.status = "error" => write_ok
          /\ applied' = handler_applied("transcribe_directory", r, ts,
                                        write_ok, old)
    /\ UNCHANGED server_vars

\* get_transcript called with the media path after a transcribing call
get_transcript_media_applied ==
    /\ applied.f \in {"transcribe_file", "transcribe_directory"}
    /\ LET media == PathOf(1)
           existing == exists(applied.store, media)
           transcript_path == find_transcript(media, existing)
       IN  applied' =
               [f |-> "get_transcript_media",
                last |-> applied.last, prev |-> applied.prev,
                before |-> applied.before, store |-> applied.store,
                value |-> IF transcript_path = NULL
                          THEN ErrorResponse("No transcript found for: " \o media)
                          ELSE read_transcript(
                                   transcript_path,
                                   transcript_path = media \o ".transcript.json",
                                   media, existing,
                                   parse_text(read(applied.store.txt.content)),
                                   applied.store.json.content)]
    /\ UNCHANGED server_vars

PureNext ==
    \/ handle_transcribe_file_applied
    \/ handle_transcribe_directory_applied
    \/ get_transcript_media_applied
    \/ transcribe_except
    \/ _extract_words_applied
    \/ transcribe_applied
    \/ format_duration_applied
    \/ write_transcript_file_applied
    \/ get_transcript_applied

PureSpec == Init /\ [][PureNext]_vars


\* ------------------------------------------------------------------ claims

InFlight == {i \in Items : pc[i] \in {"submitting", "waiting", "closing"}}
RemoteFaults == {"submit_http", "submit_exception", "wait_http", "wait_exception"}
TaskFaults == {"client", "close", "callback"}
IsBatch == tool \in {"transcribe_batch", "transcribe_directory"}
\* the handler answered with the report built from the batch's results
IsDirectoryReport ==
    tool = "transcribe_directory" /\ hstate = "returned" /\ batch = "returned"

RECURSIVE DurationSum(_, _)
DurationSum(rs, statuses) ==
    IF rs = <<>> THEN 0
    ELSE (IF Head(rs).status \in statuses THEN Head(rs).duration_seconds ELSE 0)
         + DurationSum(Tail(rs), statuses)

CountStatus(rs, status) == Cardinality({k \in 1..Len(rs) : rs[k].status = status})

\* C1: when transcribe_batch returns, its list has one outcome per input
\* item and the i-th outcome carries the file path of the i-th input item,
\* whatever the order in which the jobs completed.
C1_OrderPreserved ==
    batch = "returned" =>
        /\ Len(results) = Len(files)
        /\ \A i \in 1..Len(files) : results[i].file_path = files[i].file_path

\* a batch that returned although its second item completed first
C1_Witness ==
    /\ batch = "returned"
    /\ Len(files) >= 2
    /\ Len(progress) = Len(files)
    /\ files[1].file_path # files[2].file_path
    /\ progress[1].current_file = files[2].file_path

\* C2: with max_concurrent = k >= 1, at most k items are between the start
\* and the end of their transcribe call.
C2_AtMostKInFlight ==
    (IsBatch /\ batch # "idle" /\ max_concurrent >= 1) =>
        Cardinality(InFlight) <= max_concurrent

\* the gate is full and holds an item back
C2_Witness ==
    /\ IsBatch
    /\ max_concurrent >= 1
    /\ Cardinality(InFlight) = max_concurrent
    /\ \E i \in Items : pc[i] = "pending"

\* C3: remote failures (submit or wait raising) of some items leave the batch
\* returning one outcome per item, error exactly for the items whose remote
\* call raised and success for the items nothing went wrong with; and a batch
\* never raises because of remote failures alone.
C3_FailureIsolation ==
    /\ batch = "returned" =>
          /\ Len(results) = Len(files)
          /\ \A i \in Items :
                /\ fault[i] \in RemoteFaults => results[i].status = "error"
                /\ fault[i] = "none" => results[i].status = "success"
    /\ (IsBatch /\ batch = "raised" /\ max_concurrent >= 0) =>
          \E i \in Items : fault[i] \in TaskFaults

\* a returned batch with a remotely failed item and a successful sibling
C3_Witness ==
    /\ batch = "returned"
    /\ \E i, j \in Items :
          /\ fault[i] \in RemoteFaults /\ results[i].status = "error"
          /\ fault[j] = "none" /\ results[j].status = "success"

\* C4 (as claimed): no exception crosses a batch-item boundary: no task of a
\* batch ends with an exception, and transcribe_batch never raises once its
\* tasks were created.
C4_NoExceptionCrossesItem ==
    IsBatch =>
        /\ \A i \in Items : pc[i] # "raised"
        /\ (batch = "raised" => max_concurrent < 0)

\* C5 (as claimed): a batch started with max_concurrent >= 1 runs on until
\* it returns with an outcome for every item: at every moment it has
\* returned them all, or it is still running and a step can be taken.
C5_BatchRunsToReturn ==
    (IsBatch /\ batch # "idle" /\ max_concurrent >= 1) =>
        \/ batch = "returned" /\ Len(results) = Len(files)
        \/ batch = "running" /\ ENABLED Next

\* C5 as a liveness property, for FairSpec
C5_BatchEventuallyReturns ==
    (IsBatch /\ batch = "running" /\ max_concurrent >= 1)
        ~> (batch = "returned" /\ Len(results) = Len(files))

\* C6 (as claimed): transcribe_directory never invokes transcribe_batch
\* with a concurrency cap outside [1,50].
C6_CapWithinRange ==
    (tool = "transcribe_directory" /\ batch # "idle") =>
        (max_concurrent >= 1 /\ max_concurrent <= 50)

\* C7 (as claimed): a transcribe_directory call never blocks for ever: as
\* long as its handler has not ended, a step can be taken.
C7_DirectoryCallNeverBlocks ==
    (tool = "transcribe_directory" /\ hstate = "running") => ENABLED Next

\* C7 as a liveness property, for FairSpec
C7_DirectoryCallEnds ==
    (tool = "transcribe_directory") ~> (hstate \in {"returned", "raised"})

\* C8 (as claimed): total_duration_seconds is the sum of duration_seconds
\* over all outcomes, error outcomes included.
C8_TotalOverAllOutcomes ==
    IsDirectoryReport =>
        response.total_duration_seconds = DurationSum(results, {"success", "error"})

\* C8 (amended): total_duration_seconds is the sum of duration_seconds over
\* the success outcomes only.
C8_TotalOverSuccesses ==
    IsDirectoryReport =>
        response.total_duration_seconds = DurationSum(results, {"success"})

\* a report over a failed file with a known duration and a transcribed one
C8_Witness ==
    /\ IsDirectoryReport
    /\ \E i, j \in 1..Len(results) :
          /\ results[i].status = "error" /\ results[i].duration_seconds > 0
          /\ results[j].status = "success" /\ results[j].duration_seconds > 0

\* C9: the report counts the success outcomes as files_processed and the
\* error outcomes as files_failed, the two add up to the number of input
\* files, and the i-th transcripts entry describes the i-th outcome.
C9_ReportMatchesOutcomes ==
    IsDirectoryReport =>
        /\ response.files_processed = CountStatus(results, "success")
        /\ response.files_failed = CountStatus(results, "error")
        /\ response.files_processed + response.files_failed = Len(files)
        /\ Len(response.transcripts) = Len(results)
        /\ \A i \in 1..Len(results) :
              LET entry == response.transcripts[i]
                  r == results[i]
              IN  /\ entry.file = r.file_path
                  /\ entry.file = files[i].file_path
                  /\ entry.status = r.status
                  /\ entry.duration_seconds = r.duration_seconds
                  /\ r.status = "error" =>
                        /\ entry.transcript_path = NULL
                        /\ entry.error_message = r.error_message
                  /\ r.status = "success" =>
                        /\ entry.transcript_path =
                              get_transcript_path(r.file_path, with_timestamps)
                        /\ entry.transcript_path \in disk

\* a report over a success and a failure
C9_Witness ==
    /\ IsDirectoryReport
    /\ response.files_processed >= 1
    /\ response.files_failed >= 1

\* C10 (as claimed): no tool handler ever ends with an exception.
C10_HandlersNeverRaise ==
    tool \in {"transcribe_file", "transcribe_directory", "get_transcript",
              "get_usage"} => hstate # "raised"

\* C11: an item whose file does not exist when transcribe looks for it gets
\* the "File not found" error outcome in the very step that started it, and
\* transcribe has made no call for it: no AsyncClient was built, no job was
\* submitted, no completion was awaited.
C11_MissingFileMakesNoCall ==
    \A i \in Items :
        fault[i] = "missing" =>
            /\ pc[i] = "done"
            /\ result[i] = NotFoundResult(files[i].file_path)
            /\ result[i].status = "error"
            /\ calls[i] = <<>>

\* a batch in which one file is missing while another has a job submitted
C11_Witness ==
    /\ IsBatch
    /\ \E i, j \in Items :
          /\ fault[i] = "missing"
          /\ calls[i] = <<>>
          /\ "submit_job" \in {calls[j][k] : k \in DOMAIN calls[j]}

\* the item's transcribe has called op on its client
Called(i, op) == \E k \in DOMAIN calls[i] : calls[i][k] = op

\* C12: a transcribe_directory call whose directory is missing or is not a
\* directory, and a transcribe_file call whose file is missing or cannot be
\* probed, has answered with an error response and has started no task: no
\* batch runs and no job was submitted.
C12_ValidationFailsBeforeRemote ==
    (/\ tool \in {"transcribe_directory", "transcribe_file"}
     /\ target.kind \in {"missing", "notdir", "unprobeable"})
    => /\ hstate = "returned"
       /\ response.status = "error"
       /\ batch = "idle"
       /\ Items = {}
       /\ \A i \in DOMAIN calls : ~Called(i, "submit_job")

\* transcribe_directory was called on a missing directory and has answered
C12_Witness ==
    /\ tool = "transcribe_directory"
    /\ target.kind = "missing"
    /\ response = ErrorResponse("Directory not found")

\* C13: the batch transcribe_directory starts holds every media file of the
\* directory, in sorted order, each with a task; a file whose probe failed is
\* there with duration 0, and whatever error outcome it gets comes from its
\* transcription (its file vanished, the provider or the extraction failed),
\* never from the probe.
C13_ProbeFailureKeepsItem ==
    (tool = "transcribe_directory" /\ batch # "idle" /\ pc # <<>>)
    => LET found == SortedPaths(target.content, 1)
       IN  /\ Len(files) = Cardinality(target.content)
           /\ Items = 1..Len(found)
           /\ \A i \in Items :
                 /\ files[i].file_path = PathOf(found[i])
                 /\ files[i].duration \in {0, DurationOf(found[i])}
                 /\ pc[i] = "done" =>
                        /\ result[i].status \in {"success", "error"}
                        /\ fault[i] # "missing" =>
                               result[i].duration_seconds = files[i].duration
                        /\ result[i].status = "error" =>
                               fault[i] \in RemoteFaults
                                            \cup {"missing", "extract_exception"}

\* a directory report in which a file that could not be probed was
\* transcribed with success next to a file that could be probed
C13_Witness ==
    /\ IsDirectoryReport
    /\ \E i, j \in Items :
          /\ files[i].duration = 0
          /\ results[i].status = "success"
          /\ Called(i, "wait_for_completion")
          /\ files[j].duration > 0

\* the failure kind the specification gives to an exception
KindOf(exception) ==
    IF exception.kind # "http" THEN "Unknown"
    ELSE IF exception.error.code = 429 THEN "RateLimited"
    ELSE IF exception.error.code = 403 THEN "QuotaOrAuthError"
    ELSE IF exception.error.code = 401 THEN "InvalidCredentials"
    ELSE IF exception.error.code = 400 THEN "BadRequest"
    ELSE "RemoteError"

TwoDigits(n) == IF n < 10 THEN "0" \o ToString(n) ELSE ToString(n)

\* C17: for a whole number of seconds s, format_duration(s) is H:MM:SS when
\* s >= 3600 and M:SS otherwise (H = s div 3600, MM = (s mod 3600) div 60,
\* SS = s mod 60, two digits for the seconds and for the minutes after the
\* hours); 45 gives "0:45", 125 gives "2:05", 3725 gives "1:02:05"; and the
\* header parser of get_transcript reads s back from the text.
C17_FormatDuration ==
    applied.f = "format_duration" =>
        LET s == applied.arg
            H == s \div 3600
            MM == (s % 3600) \div 60
            SS == s % 60
        IN  /\ applied.value.text =
                   (IF s >= 3600
                    THEN ToString(H) \o ":" \o TwoDigits(MM) \o ":" \o TwoDigits(SS)
                    ELSE ToString(MM) \o ":" \o TwoDigits(SS))
            /\ Join(applied.value.chars) = applied.value.text
            /\ applied.value.parsed = s
            /\ s = 45 => applied.value.text = "0:45"
            /\ s = 125 => applied.value.text = "2:05"
            /\ s = 3725 => applied.value.text = "1:02:05"

\* 3725 seconds were formatted with hours and read back
C17_Witness ==
    /\ applied.f = "format_duration"
    /\ applied.arg = 3725
    /\ applied.value.text = "1:02:05"
    /\ applied.value.parsed = 3725

\* equality of two values of which each is None or a number
SameOptional(a, b) == ToString(a) = ToString(b)

\* str.strip() applied once to the transcript as it is read from a text file
TrimmedOnce(transcript) == strip(read(transcript))

\* C15 as stated: every success outcome written as text and read back gives
\* the transcript trimmed once, has_timestamps false, and the duration in
\* whole seconds, 0 and sub-second durations included.
C15_TextRoundTripEveryDuration ==
    (applied.f = "get_transcript" /\ ~applied.arg.with_timestamps) =>
        LET r == applied.arg.result
        IN  /\ applied.value.status = "success"
            /\ applied.value.has_timestamps = FALSE
            /\ applied.value.transcript = strip(r.transcript)
            /\ SameOptional(applied.value.duration_seconds,
                            r.duration_ticks \div TicksPerSecond)

\* C15 amended: the transcript read back is the original with every carriage
\* return (and carriage return + line feed) read as a line feed, trimmed
\* once; has_timestamps is false; a non-zero duration is read back in whole
\* seconds (0 for a sub-second one), a duration of 0 is written as "unknown"
\* and read back as no duration.
C15_TextRoundTrip ==
    (applied.f = "get_transcript" /\ ~applied.arg.with_timestamps) =>
        LET r == applied.arg.result
        IN  /\ applied.value.status = "success"
            /\ applied.value.has_timestamps = FALSE
            /\ applied.value.transcript = TrimmedOnce(r.transcript)
            /\ SameOptional(applied.value.duration_seconds,
                            IF r.duration_ticks = 0 THEN NULL
                            ELSE r.duration_ticks \div TicksPerSecond)

\* a transcript with white space around and inside it and a duration of
\* half a second was written as text and read back
C15_Witness ==
    /\ applied.f = "get_transcript"
    /\ ~applied.arg.with_timestamps
    /\ applied.arg.result.transcript = <<" ", "a", "\n", "a">>
    /\ applied.arg.result.duration_ticks = 5
    /\ applied.value.transcript = <<"a", "\n", "a">>
    /\ applied.value.duration_seconds = 0

\* C16: every success outcome written with timestamps and read back gives
\* status success, has_timestamps true, the original transcript and a
\* word_count equal to the length of its words list; absent words are
\* written as an empty array and read back with word_count 0.
C16_JsonRoundTrip ==
    /\ (applied.f = "write_transcript_file" /\ applied.arg.with_timestamps) =>
          (~applied.arg.result.words.present => applied.value.content.words = <<>>)
    /\ (applied.f = "get_transcript" /\ applied.arg.with_timestamps) =>
          LET r == applied.arg.result
          IN  /\ applied.value.status = "success"
              /\ applied.value.has_timestamps = TRUE
              /\ applied.value.transcript = r.transcript
              /\ applied.value.word_count =
                     (IF r.words.present THEN Len(r.words.items) ELSE 0)

\* an outcome without words was written with timestamps and read back
C16_Witness ==
    /\ applied.f = "get_transcript"
    /\ applied.arg.with_timestamps
    /\ ~applied.arg.result.words.present
    /\ applied.value.status = "success"
    /\ applied.value.word_count = 0

\* the job was created at or after 00:00 UTC of the first day of the month:
\* its wall-clock time less its UTC offset is not before the start
CreatedThisMonth(job) == job.created = "time" /\ job.wall - job.offset >= 0

RECURSIVE TotalDuration(_)
TotalDuration(jobs) ==
    IF jobs = <<>> THEN 0 ELSE Head(jobs).duration + TotalDuration(Tail(jobs))

\* C18: for the job list the provider returned, jobs_this_month is the number
\* of jobs created at or after 00:00 UTC of the first day of the current UTC
\* month, and hours_used_this_month is the sum of the durations of those jobs
\* divided by 3600; the other jobs count for nothing.
C18_CountsJobsSinceMonthStart ==
    (usage.pc \in {"closing", "done"} /\ "jobs" \in DOMAIN usage) =>
        LET counted == SelectSeq(usage.jobs, CreatedThisMonth)
        IN  /\ usage.value.jobs_this_month = Len(counted)
            /\ usage.value.hours_used_this_month * 3600
                   = TotalDuration(counted) * 100

\* C18 for timestamps given in UTC and totals that are whole hundredths of an
\* hour: the count and the hours are those of the jobs of the month.
C18_CountsUtcJobs ==
    (/\ usage.pc \in {"closing", "done"} /\ "jobs" \in DOMAIN usage
     /\ \A k \in DOMAIN usage.jobs :
           usage.jobs[k].offset = 0 /\ usage.jobs[k].duration # 100) =>
        LET counted == SelectSeq(usage.jobs, CreatedThisMonth)
        IN  /\ usage.value.jobs_this_month = Len(counted)
            /\ usage.value.hours_used_this_month * 3600
                   = TotalDuration(counted) * 100

\* C19: in a batch that has started, the free slots and the items holding a
\* slot always add up to max_concurrent; an item whose transcribe call has
\* ended, by a result or by an exception, holds no slot, and once every item
\* has ended (so when transcribe_batch returns) all slots are free.
C19_NoSlotLeaks ==
    (IsBatch /\ batch # "idle" /\ ~transcribe_batch_raises(max_concurrent)) =>
        /\ semaphore >= 0
        /\ semaphore + Cardinality(InFlight) = max_concurrent
        /\ (\A i \in Items : pc[i] \in {"done", "raised"}) =>
               semaphore = max_concurrent
        /\ batch = "returned" => semaphore = max_concurrent

\* every item of a batch of two has ended, one by an exception of
\* client.close() and one with an error outcome, and the only slot is free
C19_Witness ==
    /\ IsBatch
    /\ max_concurrent = 1
    /\ semaphore = 1
    /\ \E i, j \in Items :
          /\ pc[i] = "raised" /\ fault[i] = "close"
          /\ pc[j] = "done" /\ result[j].status = "error"
          /\ fault[j] \in RemoteFaults

\* how many times op is in a log of calls
Count(log, op) == Cardinality({k \in DOMAIN log : log[k] = op})

\* One client's life: at most one client is built, every other call comes
\* after it, close is called at most once and nothing is called after it;
\* when the function that built the client has ended, close was called
\* exactly once if a client was built.
ClientClosedOnce(log, ended) ==
    /\ Count(log, "AsyncClient") <= 1
    /\ Count(log, "close") <= Count(log, "AsyncClient")
    /\ \A k \in DOMAIN log : log[k] = "AsyncClient" => k = 1
    /\ \A k \in DOMAIN log : log[k] = "close" => k = Len(log)
    /\ ended => Count(log, "close") = Count(log, "AsyncClient")

\* C20: every client transcribe (and get_usage) builds is closed exactly
\* once, after its last use and before the function returns or raises,
\* whether the try block ended in success, in a classified HTTP failure or
\* in another exception; after a batch has returned as many clients were
\* closed as were built.
C20_ClientsClosedOnce ==
    /\ \A i \in Items :
          ClientClosedOnce(calls[i], pc[i] \in {"done", "raised"})
    /\ batch = "returned" =>
          \A i \in Items : Count(calls[i], "close") = Count(calls[i], "AsyncClient")
    /\ "calls" \in DOMAIN usage =>
          ClientClosedOnce(usage.calls, usage.pc \in {"done", "raised"})

\* a batch has returned in which one item succeeded and one met an
\* exception of wait_for_completion, each with its client closed
C20_Witness ==
    /\ batch = "returned"
    /\ \E i, j \in Items :
          /\ results[i].status = "success"
          /\ fault[j] = "wait_exception"
          /\ calls[i] = <<"AsyncClient", "submit_job", "wait_for_completion", "close">>
          /\ calls[j] = <<"AsyncClient", "submit_job", "wait_for_completion", "close">>

\* the calls of the progress callback made for the path
CallsFor(path) == {k \in DOMAIN progress : progress[k].current_file = path}
\* the items of the path whose transcribe has returned
ReturnedFor(path) ==
    {i \in Items : files[i].file_path = path /\ fault[i] \notin {"client", "close"}
                    /\ pc[i] \in {"done", "raised"}}

\* C21: in a batch with a progress callback the k-th call of the callback
\* carries completed = k and total = N, whatever the order in which the
\* items end; the callback is called once for every item whose transcribe
\* has returned and for no other, with that item's path; and when the batch
\* returns, completed = N and every item has had its one call.
C21_ProgressExactlyOnce ==
    (tool = "transcribe_batch" /\ batch # "idle"
        /\ ~transcribe_batch_raises(max_concurrent)) =>
        /\ completed <= Len(files)
        /\ Len(progress) = (IF has_callback THEN completed ELSE 0)
        /\ \A k \in DOMAIN progress :
              /\ progress[k].completed = k
              /\ progress[k].total = Len(files)
        /\ has_callback =>
              \A i \in DOMAIN files :
                 Cardinality(CallsFor(files[i].file_path))
                     = Cardinality(ReturnedFor(files[i].file_path))
        /\ batch = "returned" =>
              /\ completed = Len(files)
              /\ has_callback => Len(progress) = Len(files)

\* a batch of two files has returned whose second file ended first: the
\* callback was called with (1, 2, second path) and then (2, 2, first path)
C21_Witness ==
    /\ tool = "transcribe_batch"
    /\ batch = "returned"
    /\ has_callback
    /\ Len(files) = 2
    /\ files[1].file_path # files[2].file_path
    /\ progress = <<[completed |-> 1, total |-> 2,
                     current_file |-> files[2].file_path],
                    [completed |-> 2, total |-> 2,
                     current_file |-> files[1].file_path]>>

\* the two shapes of a TranscriptionResult
SuccessShape(r) ==
    /\ r.status = "success"
    /\ r.error_message = NULL
    /\ r.transcript # NULL
    /\ r.job_id # NULL
ErrorShape(r) ==
    /\ r.status = "error"
    /\ r.error_message # NULL
    /\ r.transcript = ""
    /\ ~r.words.present
    /\ r.job_id = NULL

GivesWord(item) == item.type = "word" /\ Len(item.alternatives) >= 1

\* C23: the words extracted are, in the order of the results, one entry per
\* item of type word that has an alternative (its first alternative); the
\* other items are skipped and the outcome is still a success; the words
\* are absent, and never an empty list, when nothing was extracted or the
\* payload has no results.
C23_WordExtraction ==
    applied.f = "_extract_words" =>
        LET payload == applied.arg
            kept == IF payload.has_results
                    THEN SelectSeq(payload.results, GivesWord) ELSE <<>>
        IN  /\ Len(applied.value.items) = Len(kept)
            /\ \A k \in DOMAIN kept :
                  applied.value.items[k] = [word |-> kept[k].alternatives[1]]
            /\ applied.value.present <=> kept # <<>>
            /\ transcribe_result(PathOf(1), DurationOf(1), TRUE,
                                 [kind |-> "payload", payload |-> payload]).status
                   = "success"

\* three items with a punctuation mark in the middle gave their two words,
\* in the provider's order
C23_Witness ==
    /\ applied.f = "_extract_words"
    /\ Len(applied.arg.results) = 3
    /\ applied.arg.results[2].type = "punctuation"
    /\ applied.value = [present |-> TRUE,
                        items |-> <<[word |-> "b"], [word |-> "a"]>>]

\* the item's transcribe has ended, by a return or by an exception
Ended(i) == pc[i] \in {"done", "raised"}

\* never more than one job per item; an item that has ended had one job
\* submitted if its client was built and none otherwise
SubmittedAtMostOnce ==
    \A i \in Items :
        /\ Count(calls[i], "submit_job") <= 1
        /\ Count(calls[i], "wait_for_completion") <= Count(calls[i], "submit_job")
        /\ Ended(i) =>
              Count(calls[i], "submit_job") = Count(calls[i], "AsyncClient")
        /\ (Ended(i) /\ fault[i] \in {"missing", "client"}) =>
              Count(calls[i], "submit_job") = 0
        /\ (Ended(i) /\ fault[i] \in RemoteFaults \cup {"extract_exception"}) =>
              Count(calls[i], "submit_job") = 1

\* a step leaves the outcome of an item that is done, and the item, as
\* they are
OutcomeKept ==
    \A i \in Items :
        pc[i] = "done" =>
            /\ i \in DOMAIN pc'
            /\ pc'[i] = "done"
            /\ result'[i] = result[i]
            /\ calls'[i] = calls[i]

\* C24: failures are not retried.  In every run each item has at most one
\* job submitted: one when its file exists and its client was built, none
\* otherwise; and once the item's task has produced its outcome no step of
\* any task changes the outcome or calls the provider for the item again.
C24_NoRetry == []SubmittedAtMostOnce /\ [][OutcomeKept]_vars

\* a batch has returned in which the first item failed at the provider,
\* after one submission, while the second succeeded
C24_Witness ==
    /\ batch = "returned"
    /\ Len(files) = 2
    /\ fault[1] = "submit_http"
    /\ results[1].status = "error"
    /\ Count(calls[1], "submit_job") = 1
    /\ results[2].status = "success"

\* C25: the outcome of every batch item (file_path, d) has
\* duration_seconds = d, whichever way its transcription ended: success,
\* file not found, HTTP failure or another exception.
C25_DurationKept ==
    \A i \in Items :
        (IsBatch /\ pc[i] = "done") =>
            result[i].duration_seconds = files[i].duration

\* C25 for the items whose file was found: the outcome has the duration the
\* item came with, on success and on every failure of the provider.
C25_DurationKeptWhenFound ==
    \A i \in Items :
        (IsBatch /\ pc[i] = "done" /\ fault[i] # "missing") =>
            result[i].duration_seconds = files[i].duration

\* the call is a success outcome whose file was written in the format
StoredAs(call, ts) ==
    /\ call.handler # "none"
    /\ call.result.status = "success"
    /\ call.write_ok
    /\ call.with_timestamps = ts

\* C26: in transcribe_file and transcribe_directory an error outcome writes
\* nothing, so the transcript files of the media file stay as they were; a
\* success outcome writes the format chosen by with_timestamps and leaves
\* the other format as it was; and after the media file was transcribed
\* without and then with timestamps, get_transcript with the media path
\* answers from the older text file.
C26_WrittenOnlyOnSuccess ==
    /\ applied.f \in {"transcribe_file", "transcribe_directory"} =>
           LET r == applied.last.result
               ts == applied.last.with_timestamps
           IN  /\ r.status = "error" =>
                      /\ applied.store = applied.before
                      /\ applied.value.status = "error"
               /\ (r.status = "success" /\ ts) =>
                      /\ applied.store.txt = applied.before.txt
                      /\ applied.last.write_ok =>
                             applied.store.json =
                                 [exists |-> TRUE, content |-> json_file(r)]
               /\ (r.status = "success" /\ ~ts) =>
                      /\ applied.store.json = applied.before.json
                      /\ applied.last.write_ok =>
                             applied.store.txt =
                                 [exists |-> TRUE, content |-> text_file(r)]
    /\ (/\ applied.f = "get_transcript_media"
        /\ StoredAs(applied.prev, FALSE)
        /\ StoredAs(applied.last, TRUE)) =>
           /\ applied.value.status = "success"
           /\ applied.value.has_timestamps = FALSE
           /\ applied.value.transcript = applied.prev.result.transcript
           /\ applied.store.json.content.transcript =
                  applied.last.result.transcript

\* get_transcript answered with the transcript of the text file, the newer
\* JSON file holding another one and replacing one of an earlier run
C26_Witness ==
    /\ applied.f = "get_transcript_media"
    /\ StoredAs(applied.prev, FALSE)
    /\ StoredAs(applied.last, TRUE)
    /\ applied.prev.result.transcript # applied.last.result.transcript
    /\ applied.before.json.exists
    /\ applied.before.json.content # applied.store.json.content
    /\ applied.value.transcript = applied.prev.result.transcript

\* an error outcome left the files of an earlier run as they were
C26_ErrorWitness ==
    /\ applied.f \in {"transcribe_file", "transcribe_directory"}
    /\ applied.last.result.status = "error"
    /\ applied.before.txt.exists
    /\ applied.before.json.exists
    /\ applied.store = applied.before
====
